---- MODULE Spec2Model ----
(***************************************************************************)
(* State-machine model of the 5x5 WS2812B matrix driver (lib/matrizRGB.c): *)
(* the zig-zag addressing, the three-stage colour correction, its          *)
(* configuration, and the drawing primitives with their flush behaviour.   *)
(*                                                                         *)
(* Number representation.  The C floats of the driver are kept exact:      *)
(*   - gamma and color_dominance_ratio are held in tenths (2.2f is 22);    *)
(*     every ratio the driver compares is max/min with max, min <= 255,    *)
(*     so (float)max / (float)min > ratio is decided by                    *)
(*     10 * max > ratio10 * min;                                           *)
(*   - an intensity is held in quarters (0.5f is 2), all of them exact     *)
(*     binary fractions, so (uint8_t)(c * intensity) is (c * q) \div 4;    *)
(*   - the gamma tables are the values                                     *)
(*     (uint8_t)(powf(i / 255.0f, gamma) * 255.0f + 0.5f), i = 0..255,     *)
(*     evaluated in IEEE single precision for each gamma the model uses.   *)
(***************************************************************************)
EXTENDS Integers, Sequences, FiniteSets, TLC

VARIABLES
  leds,                     \* npLED_t leds[NP_LED_COUNT]
  color_config,             \* static ColorCorrectionConfig color_config
  gamma_table,              \* static uint8_t gamma_table[256]
  gamma_table_initialized,  \* static bool gamma_table_initialized
  np_pio,                   \* static PIO np_pio
  sm,                       \* static uint sm
  pio_sm_claimed,           \* state machines claimed on each PIO block
  pio_program_loaded,       \* PIO blocks holding ws2818b_program
  wire,                     \* bytes of the last frame put on the PIO FIFO
  call,                     \* the last library call and what it did
  ndraw,                    \* drawing calls made so far
  pc,                       \* position of the caller of a pure function
  args,                     \* arguments the caller passes
  ret,                      \* value the callee returned
  main_pc,                  \* the initialisation call main is to make next
  current_state,            \* AppState current_state
  general_callback,         \* static button_callback_t general_callback
  last_press_time,          \* static uint32_t last_press_time
  now,                      \* to_ms_since_boot(get_absolute_time())
  i2c0_initialized,         \* gy33_init has set up i2c0 and the sensor
  calibrations              \* the gy33_calibrate_* calls made so far

vars == <<leds, color_config, gamma_table, gamma_table_initialized,
          np_pio, sm, pio_sm_claimed, pio_program_loaded, wire, call, ndraw, pc, args, ret,
          main_pc, current_state, general_callback, last_press_time, now,
          i2c0_initialized, calibrations>>

matrixVars == <<leds, wire>>
configVars == <<color_config, gamma_table, gamma_table_initialized>>
pioVars == <<np_pio, sm, pio_sm_claimed, pio_program_loaded>>
probeVars == <<pc, args, ret>>
appVars == <<main_pc, current_state, general_callback, last_press_time, now,
             i2c0_initialized, calibrations>>

NP_LED_COUNT == 25
NP_MATRIX_WIDTH == 5
NP_MATRIX_HEIGHT == 5

Slots == 0 .. (NP_LED_COUNT - 1)

\* npColor_t
Color(r, g, b) == [r |-> r, g |-> g, b |-> b]

\* npLED_t, fields in wire order
Led(c) == [G |-> c.g, R |-> c.r, B |-> c.b]

(* Gamma tables: (uint8_t)(powf(i / 255.0f, gamma) * 255.0f + 0.5f) *)
GammaTable10 ==
  <<     0,   1,   2,   3,   4,   5,   6,   7,   8,   9,  10,  11,  12,  13,  14,  15,
      16,  17,  18,  19,  20,  21,  22,  23,  24,  25,  26,  27,  28,  29,  30,  31,
      32,  33,  34,  35,  36,  37,  38,  39,  40,  41,  42,  43,  44,  45,  46,  47,
      48,  49,  50,  51,  52,  53,  54,  55,  56,  57,  58,  59,  60,  61,  62,  63,
      64,  65,  66,  67,  68,  69,  70,  71,  72,  73,  74,  75,  76,  77,  78,  79,
      80,  81,  82,  83,  84,  85,  86,  87,  88,  89,  90,  91,  92,  93,  94,  95,
      96,  97,  98,  99, 100, 101, 102, 103, 104, 105, 106, 107, 108, 109, 110, 111,
     112, 113, 114, 115, 116, 117, 118, 119, 120, 121, 122, 123, 124, 125, 126, 127,
     128, 129, 130, 131, 132, 133, 134, 135, 136, 137, 138, 139, 140, 141, 142, 143,
     144, 145, 146, 147, 148, 149, 150, 151, 152, 153, 154, 155, 156, 157, 158, 159,
     160, 161, 162, 163, 164, 165, 166, 167, 168, 169, 170, 171, 172, 173, 174, 175,
     176, 177, 178, 179, 180, 181, 182, 183, 184, 185, 186, 187, 188, 189, 190, 191,
     192, 193, 194, 195, 196, 197, 198, 199, 200, 201, 202, 203, 204, 205, 206, 207,
     208, 209, 210, 211, 212, 213, 214, 215, 216, 217, 218, 219, 220, 221, 222, 223,
     224, 225, 226, 227, 228, 229, 230, 231, 232, 233, 234, 235, 236, 237, 238, 239,
     240, 241, 242, 243, 244, 245, 246, 247, 248, 249, 250, 251, 252, 253, 254, 255 >>

GammaTable22 ==
  <<     0,   0,   0,   0,   0,   0,   0,   0,   0,   0,   0,   0,   0,   0,   0,   1,
       1,   1,   1,   1,   1,   1,   1,   1,   1,   2,   2,   2,   2,   2,   2,   2,
       3,   3,   3,   3,   3,   4,   4,   4,   4,   5,   5,   5,   5,   6,   6,   6,
       6,   7,   7,   7,   8,   8,   8,   9,   9,   9,  10,  10,  11,  11,  11,  12,
      12,  13,  13,  13,  14,  14,  15,  15,  16,  16,  17,  17,  18,  18,  19,  19,
      20,  20,  21,  22,  22,  23,  23,  24,  25,  25,  26,  26,  27,  28,  28,  29,
      30,  30,  31,  32,  33,  33,  34,  35,  35,  36,  37,  38,  39,  39,  40,  41,
      42,  43,  43,  44,  45,  46,  47,  48,  49,  49,  50,  51,  52,  53,  54,  55,
      56,  57,  58,  59,  60,  61,  62,  63,  64,  65,  66,  67,  68,  69,  70,  71,
      73,  74,  75,  76,  77,  78,  79,  81,  82,  83,  84,  85,  87,  88,  89,  90,
      91,  93,  94,  95,  97,  98,  99, 100, 102, 103, 105, 106, 107, 109, 110, 111,
     113, 114, 116, 117, 119, 120, 121, 123, 124, 126, 127, 129, 130, 132, 133, 135,
     137, 138, 140, 141, 143, 145, 146, 148, 149, 151, 153, 154, 156, 158, 159, 161,
     163, 165, 166, 168, 170, 172, 173, 175, 177, 179, 181, 182, 184, 186, 188, 190,
     192, 194, 196, 197, 199, 201, 203, 205, 207, 209, 211, 213, 215, 217, 219, 221,
     223, 225, 227, 229, 231, 234, 236, 238, 240, 242, 244, 246, 248, 251, 253, 255 >>

GammaTable25 ==
  <<     0,   0,   0,   0,   0,   0,   0,   0,   0,   0,   0,   0,   0,   0,   0,   0,
       0,   0,   0,   0,   0,   0,   1,   1,   1,   1,   1,   1,   1,   1,   1,   1,
       1,   2,   2,   2,   2,   2,   2,   2,   2,   3,   3,   3,   3,   3,   4,   4,
       4,   4,   4,   5,   5,   5,   5,   6,   6,   6,   6,   7,   7,   7,   7,   8,
       8,   8,   9,   9,   9,  10,  10,  10,  11,  11,  12,  12,  12,  13,  13,  14,
      14,  15,  15,  15,  16,  16,  17,  17,  18,  18,  19,  19,  20,  20,  21,  22,
      22,  23,  23,  24,  25,  25,  26,  26,  27,  28,  28,  29,  30,  30,  31,  32,
      33,  33,  34,  35,  36,  36,  37,  38,  39,  40,  40,  41,  42,  43,  44,  45,
      46,  46,  47,  48,  49,  50,  51,  52,  53,  54,  55,  56,  57,  58,  59,  60,
      61,  62,  63,  64,  65,  67,  68,  69,  70,  71,  72,  73,  75,  76,  77,  78,
      80,  81,  82,  83,  85,  86,  87,  89,  90,  91,  93,  94,  95,  97,  98,  99,
     101, 102, 104, 105, 107, 108, 110, 111, 113, 114, 116, 117, 119, 121, 122, 124,
     125, 127, 129, 130, 132, 134, 135, 137, 139, 141, 142, 144, 146, 148, 150, 151,
     153, 155, 157, 159, 161, 163, 165, 166, 168, 170, 172, 174, 176, 178, 180, 182,
     184, 186, 189, 191, 193, 195, 197, 199, 201, 204, 206, 208, 210, 212, 215, 217,
     219, 221, 224, 226, 228, 231, 233, 235, 238, 240, 243, 245, 248, 250, 253, 255 >>

GammaTable28 ==
  <<     0,   0,   0,   0,   0,   0,   0,   0,   0,   0,   0,   0,   0,   0,   0,   0,
       0,   0,   0,   0,   0,   0,   0,   0,   0,   0,   0,   0,   1,   1,   1,   1,
       1,   1,   1,   1,   1,   1,   1,   1,   1,   2,   2,   2,   2,   2,   2,   2,
       2,   3,   3,   3,   3,   3,   3,   3,   4,   4,   4,   4,   4,   5,   5,   5,
       5,   6,   6,   6,   6,   7,   7,   7,   7,   8,   8,   8,   9,   9,   9,  10,
      10,  10,  11,  11,  11,  12,  12,  13,  13,  13,  14,  14,  15,  15,  16,  16,
      17,  17,  18,  18,  19,  19,  20,  20,  21,  21,  22,  22,  23,  24,  24,  25,
      25,  26,  27,  27,  28,  29,  29,  30,  31,  32,  32,  33,  34,  35,  35,  36,
      37,  38,  39,  39,  40,  41,  42,  43,  44,  45,  46,  47,  48,  49,  50,  50,
      51,  52,  54,  55,  56,  57,  58,  59,  60,  61,  62,  63,  64,  66,  67,  68,
      69,  70,  72,  73,  74,  75,  77,  78,  79,  81,  82,  83,  85,  86,  87,  89,
      90,  92,  93,  95,  96,  98,  99, 101, 102, 104, 105, 107, 109, 110, 112, 114,
     115, 117, 119, 120, 122, 124, 126, 127, 129, 131, 133, 135, 137, 138, 140, 142,
     144, 146, 148, 150, 152, 154, 156, 158, 160, 162, 164, 167, 169, 171, 173, 175,
     177, 180, 182, 184, 186, 189, 191, 193, 196, 198, 200, 203, 205, 208, 210, 213,
     215, 218, 220, 223, 225, 228, 231, 233, 236, 239, 241, 244, 247, 249, 252, 255 >>


\* The table initGammaTable builds for a gamma given in tenths.
GammaTableFor(gamma) ==
  CASE gamma = 10 -> GammaTable10
    [] gamma = 22 -> GammaTable22
    [] gamma = 25 -> GammaTable25
    [] gamma = 28 -> GammaTable28

\* gamma_table before initGammaTable ever ran: static storage, all zero.
ZeroTable == [i \in 1 .. 256 |-> 0]

Config(gamma, noise_threshold, ratio, enable_gamma, enable_noise, enable_purification) ==
  [gamma |-> gamma,
   noise_threshold |-> noise_threshold,
   color_dominance_ratio |-> ratio,
   enable_gamma_correction |-> enable_gamma,
   enable_noise_filter |-> enable_noise,
   enable_color_purification |-> enable_purification]

\* The initializer of color_config.
DefaultConfig == Config(22, 15, 80, TRUE, TRUE, TRUE)

(***************************************************************************)
(* Addressing                                                              *)
(***************************************************************************)

getIndex_offByOne(x, y) ==
  IF y % 2 = 0
    THEN (NP_LED_COUNT - 1) - (y * NP_MATRIX_WIDTH + x)
    ELSE (NP_LED_COUNT - 1) - (y * NP_MATRIX_WIDTH + (NP_MATRIX_WIDTH - x))

getIndex(x, y) ==
  IF y % 2 = 0
    THEN (NP_LED_COUNT - 1) - (y * NP_MATRIX_WIDTH + x)
    ELSE (NP_LED_COUNT - 1) - (y * NP_MATRIX_WIDTH + (NP_MATRIX_WIDTH - 1 - x))

npIsPositionValid_inclusive(x, y) ==
  x >= 0 /\ x <= NP_MATRIX_WIDTH /\ y >= 0 /\ y <= NP_MATRIX_HEIGHT

npIsPositionValid(x, y) ==
  x >= 0 /\ x < NP_MATRIX_WIDTH /\ y >= 0 /\ y < NP_MATRIX_HEIGHT

(***************************************************************************)
(* Colour correction: processColor and its three stages                    *)
(***************************************************************************)

applyGamma(value) ==
  IF color_config.enable_gamma_correction /\ gamma_table_initialized
    THEN gamma_table[value + 1]
    ELSE value

\* One channel of stage 1.
noiseChannel_inclusive(v) ==
  IF v <= color_config.noise_threshold /\ v > 0 THEN 0 ELSE v

noiseChannel(v) ==
  IF v < color_config.noise_threshold /\ v > 0 THEN 0 ELSE v

\* Stage 1, the block under enable_noise_filter.
noiseFilter(c) ==
  IF color_config.enable_noise_filter
    THEN Color(noiseChannel(c.r), noiseChannel(c.g), noiseChannel(c.b))
    ELSE c

\* max_val as stage 2 computes it: the statement under `b_final > max_val`
\* is the expression `b_final;`, which assigns nothing.
maxVal(c) ==
  LET m0 == c.r
      m1 == IF c.g > m0 THEN c.g ELSE m0
      m2 == IF c.b > m1 THEN m1 ELSE m1
  IN  m2

minVal(c) ==
  LET m0 == c.r
      m1 == IF c.g < m0 THEN c.g ELSE m0
      m2 == IF c.b < m1 THEN c.b ELSE m1
  IN  m2

\* The guards of the zeroing step: max_val > 100, min_val > 0 and
\* (float)max_val / (float)min_val > color_dominance_ratio.
dominanceFires(c) ==
  /\ maxVal(c) > 100
  /\ minVal(c) > 0
  /\ 10 * maxVal(c) > color_config.color_dominance_ratio * minVal(c)

\* The channel the if / else-if chain identifies as dominant.
dominantChannel(c) ==
  IF c.r = maxVal(c) THEN "r"
  ELSE IF c.g = maxVal(c) THEN "g"
  ELSE IF c.b = maxVal(c) THEN "b"
  ELSE "none"

\* `v < max_val / 4` on promoted ints: the quotient truncates.
belowQuarter_exactQuotient(v, max_val) == 4 * v < max_val

belowQuarter(v, max_val) == v < (max_val \div 4)

\* The zeroing step of stage 2.
zeroOthers(c) ==
  LET m == maxVal(c)
      z(v) == IF belowQuarter(v, m) THEN 0 ELSE v
      d == dominantChannel(c)
  IN  IF dominanceFires(c)
        THEN CASE d = "r" -> Color(c.r, z(c.g), z(c.b))
               [] d = "g" -> Color(z(c.r), c.g, z(c.b))
               [] d = "b" -> Color(z(c.r), z(c.g), c.b)
               [] OTHER -> c
        ELSE c

whiteSnap_onlyWhenDominant(c) ==
  IF dominanceFires(c) /\ c.r > 240 /\ c.g > 240 /\ c.b > 240
    THEN Color(255, 255, 255)
    ELSE c

\* The special case closing stage 2.
whiteSnap(c) ==
  IF c.r > 240 /\ c.g > 240 /\ c.b > 240 THEN Color(255, 255, 255) ELSE c

\* Stage 3.
gammaStage(c) == Color(applyGamma(c.r), applyGamma(c.g), applyGamma(c.b))

\* processColor with every intermediate value it passes through.
processColorTrace_gammaFirst(r, g, b) ==
  LET g0 == gammaStage(Color(r, g, b))
      s1 == noiseFilter(g0)
      p == color_config.enable_color_purification
      s2a == IF p THEN zeroOthers(s1) ELSE s1
      s2 == IF p THEN whiteSnap(s2a) ELSE s2a
  IN  [noise |-> s1, max_val |-> maxVal(s1), min_val |-> minVal(s1),
       zeroed |-> s2a, purified |-> s2, result |-> s2]

processColorTrace(r, g, b) ==
  LET s1 == noiseFilter(Color(r, g, b))
      p == color_config.enable_color_purification
      s2a == IF p THEN zeroOthers(s1) ELSE s1
      s2 == IF p THEN whiteSnap(s2a) ELSE s2a
      s3 == gammaStage(s2)
  IN  [noise |-> s1, max_val |-> maxVal(s1), min_val |-> minVal(s1),
       zeroed |-> s2a, purified |-> s2, result |-> s3]

processColor(r, g, b) == processColorTrace(r, g, b).result

\* npSetColorCorrectionMode's argument list for each case of its switch.
PresetConfig(mode) ==
  CASE mode = 0 -> Config(10, 0, 10, FALSE, FALSE, FALSE)
    [] mode = 1 -> Config(22, 10, 60, TRUE, TRUE, FALSE)
    [] mode = 2 -> Config(22, 15, 80, TRUE, TRUE, TRUE)
    [] mode = 3 -> Config(25, 25, 100, TRUE, TRUE, TRUE)
    [] mode = 4 -> Config(28, 40, 150, TRUE, TRUE, TRUE)

Modes == 0 .. 4

(***************************************************************************)
(* State after construction (static initializers, before any call)         *)
(***************************************************************************)

PioBlocks == {"pio0", "pio1"}

NoCall == [name |-> "none", events |-> << >>, dirty |-> FALSE]
NoArgs == [fn |-> "none"]
NoRet == [fn |-> "none"]

Black == Color(0, 0, 0)

ConstructedConfig ==
  /\ color_config = DefaultConfig
  /\ gamma_table = ZeroTable
  /\ gamma_table_initialized = FALSE

\* sleep_ms(2000) at the start of main.
BootDelayMs == 2000

\* main.c and buttons.c before main's first initialisation call.
ConstructedApp ==
  /\ main_pc = "buttons_init"
  /\ current_state = "STATE_CALIBRATE_WHITE"
  /\ general_callback = "NULL"
  /\ last_press_time = 0
  /\ now = BootDelayMs
  /\ i2c0_initialized = FALSE
  /\ calibrations = << >>

ConstructedMatrix ==
  /\ leds = [i \in Slots |-> Led(Black)]
  /\ np_pio = "NULL"
  /\ sm = 0
  /\ pio_sm_claimed = [p \in PioBlocks |-> {}]
  /\ pio_program_loaded = {}
  /\ wire = << >>
  /\ call = NoCall
  /\ ndraw = 0

(***************************************************************************)
(* getIndex applied to pairs of valid coordinates                          *)
(***************************************************************************)

Columns == 0 .. (NP_MATRIX_WIDTH - 1)
Rows == 0 .. (NP_MATRIX_HEIGHT - 1)

InitIndex ==
  /\ ConstructedApp
  /\ ConstructedMatrix
  /\ ConstructedConfig
  /\ pc = "ready"
  /\ args \in [fn : {"getIndex"}, x1 : Columns, y1 : Rows, x2 : Columns, y2 : Rows]
  /\ ret = NoRet

CallGetIndex ==
  /\ pc = "ready"
  /\ args.fn = "getIndex"
  /\ ret' = [i1 |-> getIndex(args.x1, args.y1),
             i2 |-> getIndex(args.x2, args.y2)]
  /\ pc' = "done"
  /\ UNCHANGED <<matrixVars, configVars, pioVars, call, ndraw, args, appVars>>

NextIndex == CallGetIndex

SpecIndex == InitIndex /\ [][NextIndex]_vars

(***************************************************************************)
(* processColor applied to sampled colours under sampled configurations    *)
(***************************************************************************)

\* Channel values around every threshold the pipeline compares against.
ChannelSamples ==
  {0, 5, 10, 14, 15, 20, 24, 25, 40, 61, 62, 63, 100, 101, 240, 241, 245, 250, 255}

\* Configurations npSetColorCorrectionMode and npSetColorCorrectionConfig
\* can leave behind.
SampleConfigs ==
  {PresetConfig(m) : m \in Modes}
    \cup {Config(22, 15, q, eg, en, ep) :
            q \in {5, 10, 80}, eg \in BOOLEAN, en \in BOOLEAN, ep \in BOOLEAN}

\* The configuration after calls of npSetColorCorrectionConfig and
\* npSetColorCorrectionMode (a table built for the current gamma), or the
\* one of the static initializers (no table built yet).
InitColorConfig ==
  \/ /\ color_config \in SampleConfigs
     /\ gamma_table_initialized = TRUE
     /\ gamma_table = GammaTableFor(color_config.gamma)
  \/ ConstructedConfig

InitColor ==
  /\ ConstructedApp
  /\ ConstructedMatrix
  /\ InitColorConfig
  /\ pc = "ready"
  /\ args \in [fn : {"processColor"},
               r : ChannelSamples, g : ChannelSamples, b : ChannelSamples]
  /\ ret = NoRet

CallProcessColor ==
  /\ pc = "ready"
  /\ args.fn = "processColor"
  /\ ret' = processColorTrace(args.r, args.g, args.b)
  /\ pc' = "done"
  /\ UNCHANGED <<matrixVars, configVars, pioVars, call, ndraw, args, appVars>>

NextColor == CallProcessColor

SpecColor == InitColor /\ [][NextColor]_vars

(***************************************************************************)
(* Claims about getIndex (SpecIndex)                                       *)
(***************************************************************************)

\* C1: over the valid coordinates of the 5x5 grid getIndex is injective
\* (two coordinates share a slot only when they are the same coordinate)
\* and its image is exactly 0..24 (every result is a slot, every slot is hit).
C1_IndexBijective ==
  (pc = "done" /\ args.fn = "getIndex") =>
    /\ ret.i1 \in Slots
    /\ ret.i2 \in Slots
    /\ (ret.i1 = ret.i2) <=> (args.x1 = args.x2 /\ args.y1 = args.y2)
    /\ \A s \in Slots : \E x \in Columns, y \in Rows : getIndex(x, y) = s

\* The first cell of an odd row and the cell below it were looked up and got
\* the adjacent slots 15 and 14.
C1_Witness ==
  /\ pc = "done" /\ args.fn = "getIndex"
  /\ args.y1 = 1 /\ args.y2 = 2 /\ args.x1 = 0 /\ args.x2 = 0
  /\ ret.i1 = 15 /\ ret.i2 = 14

(***************************************************************************)
(* Claims about processColor (SpecColor)                                   *)
(***************************************************************************)

Done == pc = "done" /\ args.fn = "processColor"

Input == Color(args.r, args.g, args.b)

Max3(c) ==
  IF c.r >= c.g /\ c.r >= c.b THEN c.r ELSE IF c.g >= c.b THEN c.g ELSE c.b

\* C2: the max used by the purification stage is the largest of the three
\* channel values after the noise filter, blue included.
C2_MaxIsLargest ==
  (Done /\ color_config.enable_color_purification) =>
    ret.max_val = Max3(ret.noise)

Channels == {"r", "g", "b"}

Chan(c, ch) == CASE ch = "r" -> c.r [] ch = "g" -> c.g [] ch = "b" -> c.b

\* The zeroing step ran: purification enabled and its three guards passed.
Fired == Done /\ color_config.enable_color_purification /\ dominanceFires(ret.noise)

\* C3 as claimed: when the zeroing step runs, a channel other than the
\* identified one is zeroed exactly when it is below the exact quotient max/4
\* (4 * value < max), and kept otherwise; the identified channel is kept.
C3_ZeroBelowExactQuarter ==
  Fired =>
    \A ch \in Channels :
      Chan(ret.zeroed, ch) =
        IF ch # dominantChannel(ret.noise) /\ 4 * Chan(ret.noise, ch) < ret.max_val
          THEN 0
          ELSE Chan(ret.noise, ch)

\* C3 as amended: the bound is the truncated quotient, max \div 4, with max
\* the value the stage computed (for max = 250 every value below 62, so 62
\* is kept); the identified channel is kept.
C3_ZeroBelowTruncatedQuarter ==
  Fired =>
    \A ch \in Channels :
      Chan(ret.zeroed, ch) =
        IF ch # dominantChannel(ret.noise)
             /\ Chan(ret.noise, ch) < (ret.max_val \div 4)
          THEN 0
          ELSE Chan(ret.noise, ch)

\* Red 250 dominates, green 61 is zeroed and blue 62 is kept.
C3_Witness ==
  /\ Fired
  /\ ret.noise = Color(250, 61, 62)
  /\ ret.zeroed = Color(250, 0, 62)

\* C4: with the noise filter enabled and threshold T, stage 1 zeroes a
\* channel exactly when 0 < value < T, each channel on its own; with T = 15,
\* (5,5,5) becomes (0,0,0) and (0,5,20) becomes (0,0,20).
C4_NoiseFilter ==
  (Done /\ color_config.enable_noise_filter) =>
    LET T == color_config.noise_threshold
    IN  /\ \A ch \in Channels :
             Chan(ret.noise, ch) =
               IF 0 < Chan(Input, ch) /\ Chan(Input, ch) < T
                 THEN 0
                 ELSE Chan(Input, ch)
        /\ (T = 15 /\ Input = Color(5, 5, 5)) => ret.noise = Color(0, 0, 0)
        /\ (T = 15 /\ Input = Color(0, 5, 20)) => ret.noise = Color(0, 0, 20)

\* (0,5,20) went through the filter with T = 15: only the 5 was zeroed.
C4_Witness ==
  /\ Done /\ color_config.enable_noise_filter
  /\ color_config.noise_threshold = 15
  /\ Input = Color(0, 5, 20)
  /\ ret.noise = Color(0, 0, 20)

White == Color(255, 255, 255)

\* C5: processColor is gamma after purification after the noise filter
\* (purification reads the noise-filtered values, gamma the purified ones);
\* a stage whose toggle is off is the identity: with purification off no
\* channel is snapped to 255, and with all three off the result is the input.
C5_StagesInOrder ==
  Done =>
    LET p == color_config.enable_color_purification
    IN  /\ ret.noise = noiseFilter(Input)
        /\ ret.purified = IF p THEN whiteSnap(zeroOthers(ret.noise)) ELSE ret.noise
        /\ ret.result = gammaStage(ret.purified)
        /\ ~color_config.enable_noise_filter => ret.noise = Input
        /\ ~p => /\ ret.purified = ret.noise
                 /\ \A ch \in Channels :
                      Chan(ret.purified, ch) = 255 => Chan(Input, ch) = 255
        /\ ~color_config.enable_gamma_correction => ret.result = ret.purified
        /\ (~color_config.enable_noise_filter /\ ~p
              /\ ~color_config.enable_gamma_correction) => ret.result = Input

\* All three stages enabled; purification changed what the noise filter
\* passed on, and gamma changed what purification passed on.
C5_Witness ==
  /\ Done
  /\ color_config.enable_noise_filter
  /\ color_config.enable_color_purification
  /\ color_config.enable_gamma_correction /\ gamma_table_initialized
  /\ Input = Color(250, 20, 20)
  /\ ret.noise = Input
  /\ ret.purified = Color(250, 0, 0)
  /\ ret.result # ret.purified

\* C6: with purification enabled, three channels all above 240 at the end of
\* the zeroing step are set to 255 before gamma, whether or not the ratio
\* test passed; (245,245,245) reaching the stage gives (255,255,255) under
\* every dominance ratio.
C6_WhiteSnap ==
  (Done /\ color_config.enable_color_purification) =>
    /\ (ret.zeroed.r > 240 /\ ret.zeroed.g > 240 /\ ret.zeroed.b > 240)
         => ret.purified = White
    /\ ret.noise = Color(245, 245, 245) => ret.purified = White

\* (245,245,245) was snapped to white in a call where the ratio test did not
\* pass (ratio 1 against a dominance ratio of 8).
C6_Witness ==
  /\ Done /\ color_config.enable_color_purification
  /\ color_config.color_dominance_ratio = 80
  /\ ~dominanceFires(ret.noise)
  /\ Input = Color(245, 245, 245)
  /\ ret.purified = White

(***************************************************************************)
(* Handlers as programs: the slot writes, npWrite calls and delays a       *)
(* handler performs, in the order its code performs them                   *)
(***************************************************************************)

\* leds[i].R = c.r; leds[i].G = c.g; leds[i].B = c.b
SetOp(i, c) == [op |-> "set", i |-> i, c |-> c]

WriteOp == [op |-> "npWrite"]

npWriteBytes_structOrder(buf) ==
  [k \in 1 .. (3 * NP_LED_COUNT) |->
     LET i == (k - 1) \div 3
         j == (k - 1) % 3
     IN  CASE j = 0 -> buf[i].R
           [] j = 1 -> buf[i].G
           [] j = 2 -> buf[i].B]

\* The 75 bytes one npWrite puts on the FIFO: for i = 0..24 in order,
\* leds[i].G, leds[i].R, leds[i].B.
npWriteBytes(buf) ==
  [k \in 1 .. (3 * NP_LED_COUNT) |->
     LET i == (k - 1) \div 3
         j == (k - 1) % 3
     IN  CASE j = 0 -> buf[i].G
           [] j = 1 -> buf[i].R
           [] j = 2 -> buf[i].B]

\* What a running handler has done so far: the buffer, the last frame sent,
\* the npWrite / sleep_ms calls made, and whether a slot was written since
\* the last npWrite of this call.
\* trace lists the steps in order, a run of consecutive slot writes as one
\* <<"set">>; frames lists the byte sequences the npWrite calls sent.
Started(buf, sent) ==
  [leds |-> buf, wire |-> sent, events |-> << >>, dirty |-> FALSE,
   trace |-> << >>, frames |-> << >>]

\* sleep_ms(period)
SleepOp(period) == [op |-> "sleep_ms", ms |-> period]

Step(st, o) ==
  CASE o.op = "set" ->
         [st EXCEPT !.leds = [st.leds EXCEPT ![o.i] = Led(o.c)],
                    !.dirty = TRUE,
                    !.trace = IF @ # << >> /\ @[Len(@)] = <<"set">>
                                THEN @ ELSE Append(@, <<"set">>)]
    [] o.op = "npWrite" ->
         [st EXCEPT !.wire = npWriteBytes(st.leds),
                    !.events = Append(st.events, "npWrite"),
                    !.dirty = FALSE,
                    !.trace = Append(@, <<"npWrite">>),
                    !.frames = Append(@, npWriteBytes(st.leds))]
    [] o.op = "sleep_ms" ->
         [st EXCEPT !.events = Append(st.events, "sleep_ms"),
                    !.trace = Append(@, <<"sleep_ms", o.ms>>)]

RECURSIVE Exec(_, _)
Exec(prog, st) ==
  IF prog = << >> THEN st ELSE Exec(Tail(prog), Step(st, Head(prog)))

\* for (i = 0; i < NP_LED_COUNT; i++) leds[i] = c
FillOps(c) == [k \in 1 .. NP_LED_COUNT |-> SetOp(k - 1, c)]

npWriteProg == <<WriteOp>>

npClearProg_noWrite == FillOps(Black)

npClearProg == FillOps(Black) \o <<WriteOp>>

(***************************************************************************)
(* Configuration                                                           *)
(***************************************************************************)

\* initGammaTable on a configuration state cs (a record of color_config,
\* gamma_table and gamma_table_initialized).
initGammaTable(cs) ==
  IF ~cs.gamma_table_initialized
    THEN [cs EXCEPT !.gamma_table = GammaTableFor(cs.color_config.gamma),
                    !.gamma_table_initialized = TRUE]
    ELSE cs

assignConfig_keepsPurification(gamma, noise_threshold, ratio, enable_gamma, enable_noise, enable_purification) ==
  Config(gamma, noise_threshold, ratio, enable_gamma, enable_noise,
         color_config.enable_color_purification)

\* The six assignments opening npSetColorCorrectionConfig.
assignConfig(gamma, noise_threshold, ratio, enable_gamma, enable_noise, enable_purification) ==
  Config(gamma, noise_threshold, ratio, enable_gamma, enable_noise, enable_purification)

invalidateTable_never(cs, enable_gamma) == cs

\* if (enable_gamma) gamma_table_initialized = false;
invalidateTable(cs, enable_gamma) ==
  IF enable_gamma THEN [cs EXCEPT !.gamma_table_initialized = FALSE] ELSE cs

ConfigState ==
  [color_config |-> color_config,
   gamma_table |-> gamma_table,
   gamma_table_initialized |-> gamma_table_initialized]

\* npSetColorCorrectionConfig as a function of the configuration state.
setColorCorrectionConfig(cs, gamma, noise_threshold, ratio, enable_gamma, enable_noise, enable_purification) ==
  LET assigned ==
        [cs EXCEPT !.color_config =
           assignConfig(gamma, noise_threshold, ratio,
                        enable_gamma, enable_noise, enable_purification)]
  IN  IF enable_gamma
        THEN initGammaTable(invalidateTable(assigned, enable_gamma))
        ELSE assigned

\* npSetColorCorrectionMode as a function of the configuration state: the
\* switch has no default, a mode outside 0..4 changes nothing.
setColorCorrectionMode(cs, mode) ==
  IF mode \in Modes
    THEN LET p == PresetConfig(mode)
         IN  setColorCorrectionConfig(cs, p.gamma, p.noise_threshold,
               p.color_dominance_ratio, p.enable_gamma_correction,
               p.enable_noise_filter, p.enable_color_purification)
    ELSE cs

SetConfigStateNow(cs) ==
  /\ color_config = cs.color_config
  /\ gamma_table = cs.gamma_table
  /\ gamma_table_initialized = cs.gamma_table_initialized

SetConfigState(cs) ==
  /\ color_config' = cs.color_config
  /\ gamma_table' = cs.gamma_table
  /\ gamma_table_initialized' = cs.gamma_table_initialized

\* Arguments the configuration calls are made with.
GammaSamples == {10, 22, 25, 28}
ThresholdSamples == {0, 15}
RatioSamples == {10, 80}
ModeSamples == -1 .. 5

npSetColorCorrectionConfig(gamma, noise_threshold, ratio, enable_gamma, enable_noise, enable_purification) ==
  /\ SetConfigState(setColorCorrectionConfig(ConfigState, gamma, noise_threshold,
                      ratio, enable_gamma, enable_noise, enable_purification))
  /\ call' = [name |-> "npSetColorCorrectionConfig", events |-> << >>,
              dirty |-> FALSE]
  /\ UNCHANGED <<matrixVars, pioVars, ndraw, probeVars, appVars>>

npSetColorCorrectionMode(mode) ==
  /\ SetConfigState(setColorCorrectionMode(ConfigState, mode))
  /\ call' = [name |-> "npSetColorCorrectionMode", events |-> << >>,
              dirty |-> FALSE, mode |-> mode, before |-> color_config]
  /\ UNCHANGED <<matrixVars, pioVars, ndraw, probeVars, appVars>>

(***************************************************************************)
(* npInit                                                                  *)
(***************************************************************************)

StateMachines == 0 .. 3

\* GPIO pins npInit is called with; main passes 7.
PinSamples == {7}

\* pio_claim_unused_sm: the lowest free state machine of the block, or -1.
pio_claim_unused_sm(block) ==
  LET free == StateMachines \ pio_sm_claimed[block]
  IN  IF free = {} THEN -1 ELSE CHOOSE s \in free : \A t \in free : s <= t

\* npInit, called once at startup.  With no free state machine on pio1
\* either, pio_claim_unused_sm(pio1, true) panics and npInit never returns.
npInit(pin) ==
  /\ np_pio = "NULL"
  /\ LET sm0 == pio_claim_unused_sm("pio0")
         block == IF sm0 = -1 THEN "pio1" ELSE "pio0"
         claimed == IF sm0 = -1 THEN pio_claim_unused_sm("pio1") ELSE sm0
         steps == <<<<"initGammaTable">>, <<"pio_add_program", "pio0">>,
                    <<"pio_claim_unused_sm", "pio0", sm0>>>>
                  \o (IF sm0 = -1
                        THEN <<<<"pio_claim_unused_sm", "pio1", claimed>>>>
                        ELSE << >>)
                  \o <<<<"ws2818b_program_init", block, claimed, pin>>>>
     IN  /\ claimed # -1
         /\ SetConfigState(initGammaTable(ConfigState))
         /\ pio_program_loaded' = pio_program_loaded \cup {"pio0"}
         /\ np_pio' = block
         /\ sm' = claimed
         /\ pio_sm_claimed' = [pio_sm_claimed EXCEPT ![block] = @ \cup {claimed}]
         /\ \E e \in {Exec(npClearProg, Started(leds, wire))} :
              /\ leds' = e.leds
              /\ wire' = e.wire
              /\ call' = [name |-> "npInit", events |-> e.events,
                          dirty |-> e.dirty, args |-> <<pin>>,
                          trace |-> steps \o e.trace, frames |-> e.frames]
  /\ UNCHANGED <<ndraw, probeVars, appVars>>

(***************************************************************************)
(* Configuration calls in any order, around npInit                         *)
(***************************************************************************)

\* State machines other code holds when npInit runs: none, or all of pio0.
InitConfig ==
  /\ ConstructedApp
  /\ ConstructedConfig
  /\ leds = [i \in Slots |-> Led(Black)]
  /\ np_pio = "NULL"
  /\ sm = 0
  /\ pio_sm_claimed \in {[p \in PioBlocks |-> {}],
                         [p \in PioBlocks |-> IF p = "pio0" THEN StateMachines ELSE {}]}
  /\ pio_program_loaded = {}
  /\ wire = << >>
  /\ call = NoCall
  /\ ndraw = 0
  /\ pc = "idle"
  /\ args = NoArgs
  /\ ret = NoRet

NextConfig ==
  \/ \E pin \in PinSamples : npInit(pin)
  \/ \E mode \in ModeSamples : npSetColorCorrectionMode(mode)
  \/ \E gamma \in GammaSamples, noise_threshold \in ThresholdSamples,
        ratio \in RatioSamples, enable_gamma \in BOOLEAN,
        enable_noise \in BOOLEAN, enable_purification \in BOOLEAN :
       npSetColorCorrectionConfig(gamma, noise_threshold, ratio,
                                  enable_gamma, enable_noise, enable_purification)

SpecConfig == InitConfig /\ [][NextConfig]_vars

\* C7: whenever gamma correction is enabled and applyGamma reads the table
\* (it has been built), the table is the one derived from the gamma exponent
\* now in color_config, after any sequence of npInit,
\* npSetColorCorrectionConfig and npSetColorCorrectionMode calls.
C7_TableMatchesGamma ==
  (color_config.enable_gamma_correction /\ gamma_table_initialized) =>
    gamma_table = GammaTableFor(color_config.gamma)

\* Gamma is enabled with an exponent other than the default 2.2 after npInit
\* had already built a table: the table was rebuilt for the new exponent.
C7_Witness ==
  /\ np_pio # "NULL"
  /\ call.name = "npSetColorCorrectionMode"
  /\ call.before.gamma = 22
  /\ color_config.enable_gamma_correction /\ gamma_table_initialized
  /\ color_config.gamma = 28
  /\ gamma_table = GammaTable28

\* C8: npSetColorCorrectionMode(m), m in 0..4, leaves all six fields of
\* color_config equal to row m of the preset table, whatever they were.
C8_PresetRows ==
  (call.name = "npSetColorCorrectionMode" /\ call.mode \in Modes) =>
    color_config =
      CASE call.mode = 0 -> Config(10, 0, 10, FALSE, FALSE, FALSE)
        [] call.mode = 1 -> Config(22, 10, 60, TRUE, TRUE, FALSE)
        [] call.mode = 2 -> Config(22, 15, 80, TRUE, TRUE, TRUE)
        [] call.mode = 3 -> Config(25, 25, 100, TRUE, TRUE, TRUE)
        [] call.mode = 4 -> Config(28, 40, 150, TRUE, TRUE, TRUE)

\* Preset 1 was selected while the configuration was row 4, which differs
\* from row 1 in the gamma, the threshold, the ratio and the purification
\* toggle.
C8_Witness ==
  /\ call.name = "npSetColorCorrectionMode" /\ call.mode = 1
  /\ call.before = Config(28, 40, 150, TRUE, TRUE, TRUE)
  /\ color_config = Config(22, 10, 60, TRUE, TRUE, FALSE)

(***************************************************************************)
(* Drawing primitives                                                      *)
(***************************************************************************)

\* Intensities are held in quarters: IntensityOne is 1.0f.
IntensityOne == 4

clampIntensity(value) ==
  IF value < 0 THEN 0 ELSE IF value > IntensityOne THEN IntensityOne ELSE value

\* (uint8_t)(channel * intensity), intensity already clamped.
scaleChannel(channel, intensity) == (channel * intensity) \div IntensityOne

scaledColor_correctFirst(color, intensity) ==
  LET q == clampIntensity(intensity)
      c == processColor(color.r, color.g, color.b)
  IN  Color(scaleChannel(c.r, q), scaleChannel(c.g, q), scaleChannel(c.b, q))

\* The three scaled channels handed to processColor.
scaledColor(color, intensity) ==
  LET q == clampIntensity(intensity)
  IN  processColor(scaleChannel(color.r, q), scaleChannel(color.g, q),
                   scaleChannel(color.b, q))

npSetLEDProg_flushes(x, y, color) ==
  IF npIsPositionValid(x, y)
    THEN <<SetOp(getIndex(x, y), processColor(color.r, color.g, color.b)), WriteOp>>
    ELSE << >>

npSetLEDProg(x, y, color) ==
  IF npIsPositionValid(x, y)
    THEN <<SetOp(getIndex(x, y), processColor(color.r, color.g, color.b))>>
    ELSE << >>

npSetLEDRawProg_corrected(x, y, color) ==
  IF npIsPositionValid(x, y)
    THEN <<SetOp(getIndex(x, y), processColor(color.r, color.g, color.b))>>
    ELSE << >>

npSetLEDRawProg(x, y, color) ==
  IF npIsPositionValid(x, y) THEN <<SetOp(getIndex(x, y), color)>> ELSE << >>

npSetLEDIntensityProg(x, y, color, intensity) ==
  IF npIsPositionValid(x, y)
    THEN <<SetOp(getIndex(x, y), scaledColor(color, intensity))>>
    ELSE << >>

RowOps_swapped(row, c) == [k \in 1 .. NP_MATRIX_WIDTH |-> SetOp(getIndex(row, k - 1), c)]

\* for (x = 0; x < NP_MATRIX_WIDTH; x++) leds[getIndex(x, row)] = c
RowOps(row, c) == [k \in 1 .. NP_MATRIX_WIDTH |-> SetOp(getIndex(k - 1, row), c)]

\* for (y = 0; y < NP_MATRIX_HEIGHT; y++) leds[getIndex(col, y)] = c
ColumnOps(col, c) == [k \in 1 .. NP_MATRIX_HEIGHT |-> SetOp(getIndex(col, k - 1), c)]

npSetRowProg(row, color) ==
  IF row >= 0 /\ row < NP_MATRIX_HEIGHT
    THEN RowOps(row, processColor(color.r, color.g, color.b)) \o <<WriteOp>>
    ELSE << >>

npSetRowIntensityProg(row, color, intensity) ==
  IF row >= 0 /\ row < NP_MATRIX_HEIGHT
    THEN RowOps(row, scaledColor(color, intensity)) \o <<WriteOp>>
    ELSE << >>

npSetColumnProg(col, color) ==
  IF col >= 0 /\ col < NP_MATRIX_WIDTH
    THEN ColumnOps(col, processColor(color.r, color.g, color.b)) \o <<WriteOp>>
    ELSE << >>

npSetColumnIntensityProg(col, color, intensity) ==
  IF col >= 0 /\ col < NP_MATRIX_WIDTH
    THEN ColumnOps(col, scaledColor(color, intensity)) \o <<WriteOp>>
    ELSE << >>

\* First loop of npSetBorder: per x, the top cell then the bottom cell.
BorderRowsOps(c) ==
  [k \in 1 .. (2 * NP_MATRIX_WIDTH) |->
     LET x == (k - 1) \div 2
     IN  IF (k - 1) % 2 = 0
           THEN SetOp(getIndex(x, 0), c)
           ELSE SetOp(getIndex(x, NP_MATRIX_HEIGHT - 1), c)]

\* Second loop: per y in 1 .. HEIGHT - 2, the left cell then the right cell.
BorderSidesOps(c) ==
  [k \in 1 .. (2 * (NP_MATRIX_HEIGHT - 2)) |->
     LET y == 1 + ((k - 1) \div 2)
     IN  IF (k - 1) % 2 = 0
           THEN SetOp(getIndex(0, y), c)
           ELSE SetOp(getIndex(NP_MATRIX_WIDTH - 1, y), c)]

npSetBorderProg_flushBetweenLoops(color) ==
  LET c == processColor(color.r, color.g, color.b)
  IN  BorderRowsOps(c) \o <<WriteOp>> \o BorderSidesOps(c)

npSetBorderProg(color) ==
  LET c == processColor(color.r, color.g, color.b)
  IN  BorderRowsOps(c) \o BorderSidesOps(c) \o <<WriteOp>>

npSetDiagonalProg(mainDiagonal, color) ==
  LET c == processColor(color.r, color.g, color.b)
  IN  [k \in 1 .. NP_MATRIX_WIDTH |->
         LET i == k - 1
         IN  IF mainDiagonal
               THEN SetOp(getIndex(i, i), c)
               ELSE SetOp(getIndex(NP_MATRIX_WIDTH - 1 - i, i), c)]
        \o <<WriteOp>>

npFillProg(color) ==
  FillOps(processColor(color.r, color.g, color.b)) \o <<WriteOp>>

npFillRGBProg(r, g, b) == FillOps(processColor(r, g, b)) \o <<WriteOp>>

npFillRGBRawProg(r, g, b) == FillOps(Color(r, g, b)) \o <<WriteOp>>

npFillIntensityProg_uncorrected(color, intensity) ==
  LET q == clampIntensity(intensity)
  IN  FillOps(Color(scaleChannel(color.r, q), scaleChannel(color.g, q),
                    scaleChannel(color.b, q))) \o <<WriteOp>>

npFillIntensityProg(color, intensity) ==
  FillOps(scaledColor(color, intensity)) \o <<WriteOp>>

npSetMatrixWithIntensityProg_transposed(matriz, intensity) ==
  [k \in 1 .. (NP_MATRIX_HEIGHT * NP_MATRIX_WIDTH) |->
     LET linha == (k - 1) \div NP_MATRIX_WIDTH
         coluna == (k - 1) % NP_MATRIX_WIDTH
         cell == matriz[linha][coluna]
     IN  SetOp(getIndex(linha, coluna),
               scaledColor(Color(cell[1], cell[2], cell[3]), intensity))]
    \o <<WriteOp>>

\* matriz[linha][coluna] is a triple <<r, g, b>> of ints in 0..255; the loops
\* run linha outermost, coluna innermost.
npSetMatrixWithIntensityProg(matriz, intensity) ==
  [k \in 1 .. (NP_MATRIX_HEIGHT * NP_MATRIX_WIDTH) |->
     LET linha == (k - 1) \div NP_MATRIX_WIDTH
         coluna == (k - 1) % NP_MATRIX_WIDTH
         cell == matriz[linha][coluna]
     IN  SetOp(getIndex(coluna, linha),
               scaledColor(Color(cell[1], cell[2], cell[3]), intensity))]
    \o <<WriteOp>>

\* The body of npAnimateFrames's loop from frame i on; desenho[i] is frame
\* i, i in 0 .. num_frames - 1.
RECURSIVE AnimateOps(_, _, _, _, _)
AnimateOps(i, period, num_frames, desenho, intensity) ==
  IF i < num_frames
    THEN npSetMatrixWithIntensityProg(desenho[i], intensity)
           \o <<SleepOp(period)>>
           \o AnimateOps(i + 1, period, num_frames, desenho, intensity)
    ELSE << >>

RECURSIVE AnimateOps_delayBetween(_, _, _, _, _)
AnimateOps_delayBetween(i, period, num_frames, desenho, intensity) ==
  IF i < num_frames
    THEN npSetMatrixWithIntensityProg(desenho[i], intensity)
           \o (IF i + 1 < num_frames THEN <<SleepOp(period)>> ELSE << >>)
           \o AnimateOps_delayBetween(i + 1, period, num_frames, desenho, intensity)
    ELSE << >>

npAnimateFramesProg_delayBetween(period, num_frames, desenho, intensity) ==
  AnimateOps_delayBetween(0, period, num_frames, desenho, clampIntensity(intensity))

npAnimateFramesProg(period, num_frames, desenho, intensity) ==
  AnimateOps(0, period, num_frames, desenho, clampIntensity(intensity))

(***************************************************************************)
(* Drawing calls on an initialised matrix                                  *)
(***************************************************************************)

MaxDrawCalls == 2

\* Arguments the drawing calls are made with.
Palette == {Color(250, 20, 20), Color(200, 100, 50)}
PixelSamples == {<<1, 0>>, <<3, 1>>, <<5, 2>>, <<-1, 1>>, <<2, 5>>, <<2, -1>>}
LineSamples == {-1, 1, 4, 5}
\* (position, colour) and (line, colour): both colours inside the matrix,
\* one outside it.
PixelArgs ==
  {<<p, c>> \in PixelSamples \X Palette :
     npIsPositionValid(p[1], p[2]) \/ c = Color(250, 20, 20)}
LineArgs ==
  {<<l, c>> \in LineSamples \X Palette : l \in 0 .. 4 \/ c = Color(250, 20, 20)}
ScaledSamples == {<<Color(200, 100, 50), 2>>}
IntensitySamples == {2}
InitModes == {0, 2}
SolidFrame == [linha \in Rows |-> [coluna \in Columns |-> <<200, 100, 50>>]]
PatternFrame ==
  [linha \in Rows |-> [coluna \in Columns |->
     IF (linha + coluna) % 2 = 0 THEN <<250, 20, 20>> ELSE <<10 * linha, 50 * coluna, 255>>]]
FrameSamples == {SolidFrame, PatternFrame}

\* Periods in ms of the animations.
PeriodSamples == {100}

\* (num_frames, desenho, intensity): no frame, a negative count, one frame,
\* and two frames in both orders.
AnimationSamples ==
  {<<0, << >>, 2>>, <<-1, << >>, 2>>,
   <<1, [i \in {0} |-> PatternFrame], 6>>,
   <<2, [i \in {0, 1} |-> IF i = 0 THEN SolidFrame ELSE PatternFrame], 2>>,
   <<2, [i \in {0, 1} |-> IF i = 0 THEN PatternFrame ELSE SolidFrame], 4>>}

\* One call: run the handler's program on the buffer and record what it did.
Draw(name, a, prog) ==
  /\ ndraw < MaxDrawCalls
  /\ \E e \in {Exec(prog, Started(leds, wire))} :
         /\ leds' = e.leds
         /\ wire' = e.wire
         /\ call' = [name |-> name, events |-> e.events, dirty |-> e.dirty,
                     args |-> a]
  /\ ndraw' = ndraw + 1
  /\ UNCHANGED <<configVars, pioVars, probeVars, appVars>>

npWrite == Draw("npWrite", << >>, npWriteProg)

npClear == Draw("npClear", << >>, npClearProg)

npSetLED(x, y, color) == Draw("npSetLED", <<x, y, color>>, npSetLEDProg(x, y, color))

npSetLEDRaw(x, y, color) ==
  Draw("npSetLEDRaw", <<x, y, color>>, npSetLEDRawProg(x, y, color))

npSetLEDIntensity(x, y, color, intensity) ==
  Draw("npSetLEDIntensity", <<x, y, color, intensity>>,
       npSetLEDIntensityProg(x, y, color, intensity))

npSetRow(row, color) == Draw("npSetRow", <<row, color>>, npSetRowProg(row, color))

npSetRowIntensity(row, color, intensity) ==
  Draw("npSetRowIntensity", <<row, color, intensity>>,
       npSetRowIntensityProg(row, color, intensity))

npSetColumn(col, color) ==
  Draw("npSetColumn", <<col, color>>, npSetColumnProg(col, color))

npSetColumnIntensity(col, color, intensity) ==
  Draw("npSetColumnIntensity", <<col, color, intensity>>,
       npSetColumnIntensityProg(col, color, intensity))

npSetBorder(color) == Draw("npSetBorder", <<color>>, npSetBorderProg(color))

npSetDiagonal(mainDiagonal, color) ==
  Draw("npSetDiagonal", <<mainDiagonal, color>>, npSetDiagonalProg(mainDiagonal, color))

npFill(color) == Draw("npFill", <<color>>, npFillProg(color))

npFillRGB(r, g, b) == Draw("npFillRGB", <<r, g, b>>, npFillRGBProg(r, g, b))

npFillRGBRaw(r, g, b) == Draw("npFillRGBRaw", <<r, g, b>>, npFillRGBRawProg(r, g, b))

npFillIntensity(color, intensity) ==
  Draw("npFillIntensity", <<color, intensity>>, npFillIntensityProg(color, intensity))

npSetMatrixWithIntensity(matriz, intensity) ==
  Draw("npSetMatrixWithIntensity", <<matriz, intensity>>,
       npSetMatrixWithIntensityProg(matriz, intensity))

npAnimateFrames(period, num_frames, desenho, intensity) ==
  /\ ndraw < MaxDrawCalls
  /\ \E e \in {Exec(npAnimateFramesProg(period, num_frames, desenho, intensity),
                     Started(leds, wire))} :
         /\ leds' = e.leds
         /\ wire' = e.wire
         /\ call' = [name |-> "npAnimateFrames", events |-> e.events,
                     dirty |-> e.dirty,
                     args |-> <<period, num_frames, desenho, intensity>>,
                     trace |-> e.trace, frames |-> e.frames]
  /\ ndraw' = ndraw + 1
  /\ UNCHANGED <<configVars, pioVars, probeVars, appVars>>

\* The state main reaches with npInit(7) on a free pio0, followed by the
\* selection of a preset: 0 (no correction) or 2 (the default values).
Init ==
  /\ ConstructedApp
  /\ \E mode \in InitModes :
       /\ SetConfigStateNow(setColorCorrectionMode(
             initGammaTable([color_config |-> DefaultConfig,
                             gamma_table |-> ZeroTable,
                             gamma_table_initialized |-> FALSE]), mode))
       /\ call = [name |-> "npSetColorCorrectionMode", events |-> << >>,
                  dirty |-> FALSE, mode |-> mode, before |-> DefaultConfig]
  /\ leds = [i \in Slots |-> Led(Black)]
  /\ wire = npWriteBytes([i \in Slots |-> Led(Black)])
  /\ np_pio = "pio0"
  /\ sm = 0
  /\ pio_sm_claimed = [p \in PioBlocks |-> IF p = "pio0" THEN {0} ELSE {}]
  /\ pio_program_loaded = {"pio0"}
  /\ ndraw = 0
  /\ pc = "idle"
  /\ args = NoArgs
  /\ ret = NoRet

Next ==
  \/ npWrite
  \/ npClear
  \/ \E a \in PixelArgs : npSetLED(a[1][1], a[1][2], a[2])
  \/ \E a \in PixelArgs : npSetLEDRaw(a[1][1], a[1][2], a[2])
  \/ \E p \in PixelSamples, s \in ScaledSamples :
       npSetLEDIntensity(p[1], p[2], s[1], s[2])
  \/ \E a \in LineArgs : npSetRow(a[1], a[2])
  \/ \E row \in LineSamples, s \in ScaledSamples :
       npSetRowIntensity(row, s[1], s[2])
  \/ \E a \in LineArgs : npSetColumn(a[1], a[2])
  \/ \E col \in LineSamples, s \in ScaledSamples :
       npSetColumnIntensity(col, s[1], s[2])
  \/ \E color \in Palette : npSetBorder(color)
  \/ \E mainDiagonal \in BOOLEAN, color \in Palette : npSetDiagonal(mainDiagonal, color)
  \/ \E color \in Palette : npFill(color)
  \/ \E color \in Palette : npFillRGB(color.r, color.g, color.b)
  \/ \E color \in Palette : npFillRGBRaw(color.r, color.g, color.b)
  \/ \E s \in ScaledSamples : npFillIntensity(s[1], s[2])
  \/ \E matriz \in FrameSamples, intensity \in IntensitySamples :
       npSetMatrixWithIntensity(matriz, intensity)
  \/ \E period \in PeriodSamples, a \in AnimationSamples :
       npAnimateFrames(period, a[1], a[2], a[3])

Spec == Init /\ [][Next]_vars

(***************************************************************************)
(* Claims about flushing (Spec)                                            *)
(***************************************************************************)

GroupCalls ==
  {"npSetRow", "npSetRowIntensity", "npSetColumn", "npSetColumnIntensity",
   "npSetBorder", "npSetDiagonal", "npFill", "npFillRGB", "npFillRGBRaw",
   "npFillIntensity", "npSetMatrixWithIntensity"}

LineCalls == {"npSetRow", "npSetRowIntensity", "npSetColumn", "npSetColumnIntensity"}

PixelCalls == {"npSetLED", "npSetLEDRaw", "npSetLEDIntensity"}

\* The last call was a group or whole-matrix primitive with in-range
\* arguments (a row or column index in 0..4 where it takes one).
GroupCallInRange ==
  /\ call.name \in GroupCalls
  /\ call.name \in LineCalls => call.args[1] \in 0 .. 4

\* Slots whose content differs from what the last transmitted frame holds
\* for them.
Unsent == {i \in Slots : <<leds[i].G, leds[i].R, leds[i].B>>
                           # <<wire[3 * i + 1], wire[3 * i + 2], wire[3 * i + 3]>>}

\* C9: a group or whole-matrix primitive called with in-range arguments
\* calls npWrite exactly once, after its last slot write, so on return the
\* transmitted frame is the whole buffer, earlier unflushed pixels included.
C9_GroupFlushesOnce ==
  GroupCallInRange =>
    /\ call.events = <<"npWrite">>
    /\ ~call.dirty
    /\ wire = npWriteBytes(leds)

\* npSetBorder returned after an unflushed pixel write to an interior cell:
\* the frame it sent holds that pixel and the border.
C9_Witness ==
  /\ call.name = "npSetBorder"
  /\ call.events = <<"npWrite">>
  /\ leds[getIndex(3, 1)] # Led(Black)
  /\ leds[getIndex(3, 1)] # leds[getIndex(0, 0)]
  /\ leds[getIndex(0, 2)] = leds[getIndex(0, 0)]
  /\ wire = npWriteBytes(leds)

\* C10: npSetLED, npSetLEDRaw and npSetLEDIntensity never call npWrite: the
\* transmitted frame stays the one of the last earlier flush, and a later
\* npWrite sends the buffer as those calls left it.
C10_PixelCallsDoNotFlush ==
  [][/\ call'.name \in PixelCalls => (wire' = wire /\ call'.events = << >>)
     /\ call'.name = "npWrite" => (wire' = npWriteBytes(leds) /\ leds' = leds)]_vars

\* Two pixels written by single-pixel calls since the last flush are both
\* still missing from the transmitted frame.
C10_Witness ==
  /\ call.name \in PixelCalls
  /\ ndraw = 2
  /\ Cardinality(Unsent) = 2

(***************************************************************************)
(* Claims about the effect of the drawing calls on the buffer (Spec)       *)
(***************************************************************************)

\* The call made by this step was a single-pixel primitive with (x, y)
\* outside the matrix, or a row / column primitive with an index outside
\* 0 .. 4.
OutOfRangeCall(c) ==
  \/ c.name \in PixelCalls /\ ~(c.args[1] \in 0 .. 4 /\ c.args[2] \in 0 .. 4)
  \/ c.name \in LineCalls /\ c.args[1] \notin 0 .. 4

\* C11: a single-pixel primitive called with coordinates outside
\* [0,5) x [0,5), or a row / column primitive called with an index outside
\* 0 .. 4, writes no slot and calls npWrite not at all: the buffer, the
\* transmitted frame and the configuration are as before the call (the
\* functions are void, nothing is reported).
C11_OutOfRangeIsNoOp ==
  [][OutOfRangeCall(call') =>
       /\ leds' = leds
       /\ wire' = wire
       /\ call'.events = << >> /\ ~call'.dirty
       /\ UNCHANGED <<configVars, pioVars>>]_vars

\* A pixel call with x = 5 returned on a buffer that holds an earlier,
\* still unsent pixel.
C11_Witness ==
  /\ call.name = "npSetLED" /\ call.args[1] = 5 /\ call.args[2] = 2
  /\ ndraw = 2
  /\ Unsent = {getIndex(3, 1)}

\* C12: one npWrite puts exactly 75 bytes on the FIFO: for slot 0, 1, ..., 24
\* in that order the slot's G byte, then its R byte, then its B byte; it
\* changes neither the buffer nor the colour configuration.
C12_FlushEmitsGRB ==
  [][call'.name = "npWrite" =>
       /\ Len(wire') = 75
       /\ \A i \in 0 .. 24 :
            /\ wire'[3 * i + 1] = leds[i].G
            /\ wire'[3 * i + 2] = leds[i].R
            /\ wire'[3 * i + 3] = leds[i].B
       /\ leds' = leds
       /\ UNCHANGED configVars]_vars

\* npWrite sent a buffer in which slot 23 holds the raw colour (200,100,50)
\* and the other slots are dark: bytes 70..72 are 100, 200, 50.
C12_Witness ==
  /\ call.name = "npWrite"
  /\ leds[23] = [G |-> 100, R |-> 200, B |-> 50]
  /\ \A i \in 0 .. 22 : leds[i] = [G |-> 0, R |-> 0, B |-> 0]
  /\ SubSeq(wire, 67, 75) = <<0, 0, 0, 100, 200, 50, 0, 0, 0>>

\* C13: npSetLEDRaw(x, y, c) with (x, y) inside the matrix leaves slot
\* getIndex(x, y) holding R = c.r, G = c.g, B = c.b exactly, under any
\* colour configuration, and leaves the other 24 slots as they were.
C13_RawRoundTrip ==
  [][(call'.name = "npSetLEDRaw" /\ ~OutOfRangeCall(call')) =>
       LET x == call'.args[1]
           y == call'.args[2]
           c == call'.args[3]
       IN  /\ leds'[getIndex(x, y)] = [G |-> c.g, R |-> c.r, B |-> c.b]
           /\ \A i \in Slots \ {getIndex(x, y)} : leds'[i] = leds[i]]_vars

\* With every correction stage enabled, npSetLEDRaw stored (250,20,20)
\* unchanged at (3,1) (processColor would make it a pure red) next to an
\* earlier pixel that kept its value.
C13_Witness ==
  /\ call.name = "npSetLEDRaw" /\ call.args = <<3, 1, Color(250, 20, 20)>>
  /\ color_config = PresetConfig(2)
  /\ processColor(250, 20, 20) # Color(250, 20, 20)
  /\ leds[getIndex(3, 1)] = [G |-> 20, R |-> 250, B |-> 20]
  /\ leds[getIndex(1, 0)] # Led(Black)

(***************************************************************************)
(* Intensity-taking calls under every preset                               *)
(***************************************************************************)

\* Colour / intensity pairs: one half, one quarter (a product that is not
\* an integer), zero, one, below zero and above one.
IntensityPairs ==
  {<<Color(200, 100, 50), 2>>, <<Color(200, 100, 50), 4>>, <<Color(200, 100, 50), 0>>,
   <<Color(250, 20, 20), 1>>, <<Color(250, 20, 20), 6>>, <<Color(250, 20, 20), -1>>,
   <<Color(250, 20, 20), 4>>, <<Color(250, 20, 20), 0>>,
   <<Color(245, 245, 245), 4>>}
FrameIntensities == {0, 2, 4}

\* The matrix after npInit(7) on a free pio0 and the selection of any of
\* the five presets.
InitIntensity ==
  /\ ConstructedApp
  /\ \E mode \in Modes :
       /\ SetConfigStateNow(setColorCorrectionMode(
             initGammaTable([color_config |-> DefaultConfig,
                             gamma_table |-> ZeroTable,
                             gamma_table_initialized |-> FALSE]), mode))
       /\ call = [name |-> "npSetColorCorrectionMode", events |-> << >>,
                  dirty |-> FALSE, mode |-> mode, before |-> DefaultConfig]
  /\ leds = [i \in Slots |-> Led(Black)]
  /\ wire = npWriteBytes([i \in Slots |-> Led(Black)])
  /\ np_pio = "pio0"
  /\ sm = 0
  /\ pio_sm_claimed = [p \in PioBlocks |-> IF p = "pio0" THEN {0} ELSE {}]
  /\ pio_program_loaded = {"pio0"}
  /\ ndraw = 0
  /\ pc = "idle"
  /\ args = NoArgs
  /\ ret = NoRet

\* The intensity-taking primitives and their counterparts without an
\* intensity parameter, on one pixel, one row, one column and the matrix.
NextIntensity ==
  \/ \E s \in IntensityPairs : npSetLEDIntensity(3, 1, s[1], s[2])
  \/ \E s \in IntensityPairs : npSetRowIntensity(1, s[1], s[2])
  \/ \E s \in IntensityPairs : npSetColumnIntensity(4, s[1], s[2])
  \/ \E s \in IntensityPairs : npFillIntensity(s[1], s[2])
  \/ \E matriz \in FrameSamples, intensity \in FrameIntensities :
       npSetMatrixWithIntensity(matriz, intensity)
  \/ \E color \in Palette : npSetLED(3, 1, color)
  \/ \E color \in Palette : npSetRow(1, color)
  \/ \E color \in Palette : npSetColumn(4, color)
  \/ \E color \in Palette : npFill(color)

SpecIntensity == InitIntensity /\ [][NextIntensity]_vars

(***************************************************************************)
(* Claims about intensity scaling (SpecIntensity)                          *)
(***************************************************************************)

IntensityCalls ==
  {"npSetLEDIntensity", "npSetRowIntensity", "npSetColumnIntensity",
   "npFillIntensity", "npSetMatrixWithIntensity"}

PlainCalls == {"npSetLED", "npSetRow", "npSetColumn", "npFill"}

\* The intensity argument of the last call (always its last argument).
CallIntensity == call.args[Len(call.args)]

\* The slots the last call is to write, each with the input colour meant
\* for it.
Writes ==
  CASE call.name \in {"npSetLED", "npSetLEDIntensity"} ->
         {<<getIndex(call.args[1], call.args[2]), call.args[3]>>}
    [] call.name \in {"npSetRow", "npSetRowIntensity"} ->
         {<<getIndex(x, call.args[1]), call.args[2]>> : x \in Columns}
    [] call.name \in {"npSetColumn", "npSetColumnIntensity"} ->
         {<<getIndex(call.args[1], y), call.args[2]>> : y \in Rows}
    [] call.name \in {"npFill", "npFillIntensity"} ->
         {<<i, call.args[1]>> : i \in Slots}
    [] call.name = "npSetMatrixWithIntensity" ->
         {<<getIndex(x, y),
            Color(call.args[1][y][x][1], call.args[1][y][x][2], call.args[1][y][x][3])>> :
              x \in Columns, y \in Rows}

\* Clamp to [0,1], multiply each input channel truncating, then correct.
ClampScaleCorrect(c, intensity) ==
  LET q == IF intensity < 0 THEN 0
           ELSE IF intensity > IntensityOne THEN IntensityOne ELSE intensity
  IN  processColor((c.r * q) \div IntensityOne, (c.g * q) \div IntensityOne,
                   (c.b * q) \div IntensityOne)

\* C14: every intensity-taking primitive clamps the intensity to [0,1],
\* multiplies each input channel by it truncating toward zero, and applies
\* processColor to the scaled triple; with preset 2,
\* npFillIntensity((200,100,50), 0.5) scales to (100,50,25), which neither
\* the noise filter nor purification changes, and stores
\* (table[100], table[50], table[25]) in all 25 slots.
C14_ScaleThenCorrect ==
  /\ (call.name \in IntensityCalls /\ ~OutOfRangeCall(call)) =>
        \A w \in Writes : leds[w[1]] = Led(ClampScaleCorrect(w[2], CallIntensity))
  /\ (/\ color_config = PresetConfig(2)
      /\ call.name = "npFillIntensity"
      /\ call.args = <<Color(200, 100, 50), 2>>) =>
        /\ processColorTrace(100, 50, 25).noise = Color(100, 50, 25)
        /\ processColorTrace(100, 50, 25).purified = Color(100, 50, 25)
        /\ \A i \in Slots :
             leds[i] = [R |-> gamma_table[101], G |-> gamma_table[51],
                        B |-> gamma_table[26]]

\* npFillIntensity((200,100,50), 0.5) returned under preset 2 and every
\* slot holds (33, 7, 2), the gamma 2.2 table entries of 100, 50 and 25.
C14_Witness ==
  /\ color_config = PresetConfig(2)
  /\ call.name = "npFillIntensity" /\ call.args = <<Color(200, 100, 50), 2>>
  /\ \A i \in Slots : leds[i] = [R |-> 33, G |-> 7, B |-> 2]

\* C15: under each preset 0..4 an intensity-taking primitive called with
\* intensity 0 stores (0,0,0) in every slot it writes, and called with
\* intensity 1 stores processColor(colour), which is what the primitive
\* without the intensity parameter stores.
C15_IntensityZeroAndOne ==
  /\ (call.name \in IntensityCalls /\ ~OutOfRangeCall(call)) =>
        /\ CallIntensity = 0 => \A w \in Writes : leds[w[1]] = Led(Black)
        /\ CallIntensity = IntensityOne =>
             \A w \in Writes : leds[w[1]] = Led(processColor(w[2].r, w[2].g, w[2].b))
  /\ (call.name \in PlainCalls /\ ~OutOfRangeCall(call)) =>
        \A w \in Writes : leds[w[1]] = Led(processColor(w[2].r, w[2].g, w[2].b))

\* Under preset 4 the second call of a run wrote a pixel with intensity 1:
\* it holds the corrected colour, which differs from the input colour, and
\* its neighbour in the row is dark, in the buffer and on the wire.
C15_Witness ==
  /\ color_config = PresetConfig(4)
  /\ call.name = "npSetLEDIntensity" /\ call.args = <<3, 1, Color(250, 20, 20), 4>>
  /\ leds[getIndex(3, 1)] = Led(processColor(250, 20, 20))
  /\ leds[getIndex(3, 1)] # Led(Color(250, 20, 20))
  /\ leds[getIndex(2, 1)] = Led(Black)
  /\ wire[3 * getIndex(2, 1) + 1] = 0
  /\ ndraw = 2

(***************************************************************************)
(* Claims about whole frames (Spec)                                        *)
(***************************************************************************)

\* The cell (x, y) stored in slot i.
CellOf(i) == CHOOSE c \in Columns \X Rows : getIndex(c[1], c[2]) = i

\* The buffer that holds frame matriz scaled by intensity and corrected,
\* cell [row][col] in slot getIndex(col, row).
FrameBuffer(matriz, intensity) ==
  [i \in Slots |->
     LET cell == matriz[CellOf(i)[2]][CellOf(i)[1]]
     IN  Led(ClampScaleCorrect(Color(cell[1], cell[2], cell[3]), intensity))]

\* C16: npAnimateFrames with n frames handles frames 0 .. n-1 in order; for
\* each it writes the whole matrix, calls npWrite once, then sleep_ms(period),
\* and only then writes a slot for the next frame: n flushes and n delays
\* in all, and no write and no flush when n <= 0.
C16_AnimateFramesInOrder ==
  call.name = "npAnimateFrames" =>
    LET period == call.args[1]
        n == IF call.args[2] > 0 THEN call.args[2] ELSE 0
        desenho == call.args[3]
        intensity == call.args[4]
    IN  /\ Len(call.trace) = 3 * n
        /\ \A k \in 0 .. n - 1 :
             /\ call.trace[3 * k + 1] = <<"set">>
             /\ call.trace[3 * k + 2] = <<"npWrite">>
             /\ call.trace[3 * k + 3] = <<"sleep_ms", period>>
        /\ Len(call.frames) = n
        /\ \A k \in 0 .. n - 1 :
             call.frames[k + 1] = npWriteBytes(FrameBuffer(desenho[k], intensity))
        /\ n > 0 => leds = FrameBuffer(desenho[n - 1], intensity)

\* Two different frames were played: two flushes, the first of frame 0 and
\* the second of frame 1, each followed by a delay.
C16_Witness ==
  /\ call.name = "npAnimateFrames" /\ call.args[2] = 2
  /\ call.events = <<"npWrite", "sleep_ms", "npWrite", "sleep_ms">>
  /\ call.frames[1] # call.frames[2]
  /\ call.frames[1] = npWriteBytes(FrameBuffer(SolidFrame, 2))
  /\ wire = call.frames[2]


\* The 25 calls npSetLEDIntensity(col, row, matriz[row][col], intensity), row
\* by row, followed by one npWrite.
PixelByPixel(matriz, intensity) ==
  [k \in 1 .. 25 |->
     LET row == (k - 1) \div 5
         col == (k - 1) % 5
         cell == matriz[row][col]
     IN  npSetLEDIntensityProg(col, row, Color(cell[1], cell[2], cell[3]),
                               intensity)[1]]
    \o <<WriteOp>>

\* C17: for a frame with channel values in 0..255,
\* npSetMatrixWithIntensity(frame, i) leaves the buffer as the 25 calls
\* npSetLEDIntensity(col, row, frame[row][col], i) followed by one npWrite
\* would; for a frame with one colour c in every cell the buffer equals the
\* one npFillIntensity(c, i) leaves.
C17_MatrixIsPixelByPixel ==
  [][call'.name = "npSetMatrixWithIntensity" =>
       LET matriz == call'.args[1]
           intensity == call'.args[2]
           c == Color(matriz[0][0][1], matriz[0][0][2], matriz[0][0][3])
           pixels == Exec(PixelByPixel(matriz, intensity), Started(leds, wire))
       IN  /\ leds' = pixels.leds
           /\ wire' = pixels.wire
           /\ call'.events = pixels.events
           /\ (\A y \in Rows, x \in Columns : matriz[y][x] = matriz[0][0]) =>
                leds' = Exec(npFillIntensityProg(c, intensity),
                             Started(leds, wire)).leds]_vars

\* The pattern frame was shown at half intensity under preset 2: cell
\* [0][1] = (0,50,255) is in slot getIndex(1,0) as the corrected (0,25,127),
\* and differs from its neighbour cell [1][0].
C17_Witness ==
  /\ call.name = "npSetMatrixWithIntensity"
  /\ call.args = <<PatternFrame, 2>>
  /\ color_config = PresetConfig(2)
  /\ leds[getIndex(1, 0)] = Led(processColor(0, 25, 127))
  /\ leds[getIndex(0, 1)] = Led(processColor(5, 0, 127))
  /\ leds[getIndex(1, 0)] # leds[getIndex(0, 1)]

(***************************************************************************)
(* Start-up: configuration calls and pixel writes around npInit            *)
(***************************************************************************)

\* Pixel calls touch only the buffer and may precede npInit.
NextStartup ==
  \/ \E pin \in PinSamples : npInit(pin)
  \/ \E mode \in InitModes : npSetColorCorrectionMode(mode)
  \/ \E color \in Palette : npSetLEDRaw(3, 1, color)
  \/ \E color \in Palette : npSetLED(1, 0, color)

SpecStartup == InitConfig /\ [][NextStartup]_vars

(***************************************************************************)
(* Claims about npInit (SpecStartup)                                       *)
(***************************************************************************)

\* C18: when npInit(pin) returns, all 25 slots are (0,0,0) and npInit has
\* called npWrite exactly once, sending the all-zero frame, after the state
\* machine it writes to was claimed and then set up for the pin by
\* ws2818b_program_init.
C18_InitClearsAndFlushesOnce ==
  call.name = "npInit" =>
    LET t == call.trace
    IN  /\ \A i \in Slots : leds[i] = [G |-> 0, R |-> 0, B |-> 0]
        /\ call.events = <<"npWrite">>
        /\ call.frames = <<[k \in 1 .. 75 |-> 0]>>
        /\ wire = [k \in 1 .. 75 |-> 0]
        /\ sm \in pio_sm_claimed[np_pio]
        /\ \E c \in 1 .. Len(t), b \in 1 .. Len(t), w \in 1 .. Len(t) :
             /\ c < b /\ b < w
             /\ t[c] = <<"pio_claim_unused_sm", np_pio, sm>>
             /\ t[b] = <<"ws2818b_program_init", np_pio, sm, call.args[1]>>
             /\ t[w] = <<"npWrite">>

\* npInit(7) returned after a pixel had been written into the buffer, with
\* pio0 fully taken: it claimed state machine 0 of pio1, set it up for pin
\* 7, cleared the buffer and sent the dark frame.
C18_Witness ==
  /\ call.name = "npInit" /\ call.args = <<7>>
  /\ ndraw > 0
  /\ np_pio = "pio1" /\ sm = 0
  /\ leds = [i \in Slots |-> Led(Black)]
  /\ Len(wire) = 75

\* C20: the bank npInit ends up using, pio0 or pio1 when pio0 has no free
\* state machine, is a bank the ws2818b program was loaded into.
C20_ProgramLoadedInBankUsed ==
  np_pio # "NULL" => np_pio \in pio_program_loaded

(***************************************************************************)
(* Claims about the shapes (Spec)                                          *)
(***************************************************************************)

ShapeCalls == {"npSetRow", "npSetColumn", "npSetBorder", "npSetDiagonal", "npFill"}

\* The slots of the shape the call c names.
ShapeSlots(c) ==
  CASE c.name = "npSetRow" -> {getIndex(x, c.args[1]) : x \in 0 .. 4}
    [] c.name = "npSetColumn" -> {getIndex(c.args[1], y) : y \in 0 .. 4}
    [] c.name = "npSetBorder" ->
         {getIndex(x, y) : x \in {0, 4}, y \in 0 .. 4}
           \cup {getIndex(x, y) : x \in 0 .. 4, y \in {0, 4}}
    [] c.name = "npSetDiagonal" ->
         IF c.args[1] THEN {getIndex(i, i) : i \in 0 .. 4}
                      ELSE {getIndex(4 - i, i) : i \in 0 .. 4}
    [] c.name = "npFill" -> Slots

\* The number of slots the claim gives for the shape.
ShapeSize(c) ==
  CASE c.name = "npSetBorder" -> 16
    [] c.name = "npFill" -> 25
    [] OTHER -> 5

\* The colour argument of a shape call (its last argument).
ShapeColor(c) == c.args[Len(c.args)]

\* C19: each shape primitive gives the slots of its shape the same
\* corrected colour and changes no other slot: npSetRow(r) the 5 slots
\* getIndex(x, r), npSetColumn(c) the 5 slots getIndex(c, y), npSetBorder the
\* 16 cells with x in {0,4} or y in {0,4} (the 9 interior cells keep their
\* values), npSetDiagonal(true) the cells (i,i), npSetDiagonal(false) the
\* cells (4-i,i), npFill all 25.
C19_ShapeFrameEffect ==
  [][(call'.name \in ShapeCalls /\ ~OutOfRangeCall(call')) =>
       LET S == ShapeSlots(call')
           c == ShapeColor(call')
       IN  /\ Cardinality(S) = ShapeSize(call')
           /\ \A i \in S : leds'[i] = Led(processColor(c.r, c.g, c.b))
           /\ \A i \in Slots \ S : leds'[i] = leds[i]]_vars

\* npSetBorder returned on a buffer with one lit interior pixel: 16 slots
\* hold the border colour, the interior pixel kept another colour and the
\* other 8 interior slots are dark.
C19_Witness ==
  /\ call.name = "npSetBorder"
  /\ LET c == call.args[1]
         lit == {i \in Slots : leds[i] = Led(processColor(c.r, c.g, c.b))}
         dark == {i \in Slots : leds[i] = Led(Black)}
     IN  /\ Cardinality(lit) = 16
         /\ Cardinality(dark) = 8
         /\ getIndex(3, 1) \notin lit \cup dark

(***************************************************************************)
(* The application: main, the button interrupt and the sensor calibration  *)
(***************************************************************************)

BUTTON_A_PIN == 5
BUTTON_B_PIN == 6
BUTTON_C_PIN == 22

\* static const uint32_t debounce_ms
debounce_ms == 200

\* The clock is observed every 100 ms, the period of main's loop.
TickMs == 100

\* The clock is followed up to this many ms since boot.
MaxNow == 2600

libVars == <<matrixVars, configVars, pioVars, call, ndraw, probeVars>>

\* reset_usb_boot has left the program, or an I2C transfer on a bus that
\* was never set up does not return: nothing runs any more.
Stopped == main_pc \in {"reset_usb_boot", "hung"}

\* buttons_init(btn_callback): stores the callback, then enables the GPIO
\* interrupts with gpio_callback_handler as their handler.
buttons_init(callback) ==
  /\ main_pc = "buttons_init"
  /\ general_callback' = callback
  /\ main_pc' = "led_init"
  /\ UNCHANGED <<current_state, last_press_time, now, i2c0_initialized,
                 calibrations, libVars>>

led_init ==
  /\ main_pc = "led_init"
  /\ main_pc' = "gy33_init"
  /\ UNCHANGED <<current_state, general_callback, last_press_time, now,
                 i2c0_initialized, calibrations, libVars>>

\* gy33_init: i2c_init(i2c0), the pin functions, the sensor's registers.
gy33_init ==
  /\ main_pc = "gy33_init"
  /\ i2c0_initialized' = TRUE
  /\ main_pc' = "npInit"
  /\ UNCHANGED <<current_state, general_callback, last_press_time, now,
                 calibrations, libVars>>

\* npInit(7) in main; np_pio set tells that it has returned, and main goes
\* on to its loop (the buzzer and display set-up touch nothing held here).
main_npInit ==
  /\ main_pc = "npInit"
  /\ npInit(7)

\* One pass of main's loop in STATE_RUNNING: the sensed colour goes to the
\* matrix.  In the two calibration states a pass only redraws the display.
main_loop(r_final, g_final, b_final) ==
  /\ main_pc = "npInit" /\ np_pio # "NULL"
  /\ current_state = "STATE_RUNNING"
  /\ npFillRGB(r_final, g_final, b_final)

\* 100 ms pass.
Tick ==
  /\ ~Stopped
  /\ now < MaxNow
  /\ now' = now + TickMs
  /\ UNCHANGED <<main_pc, current_state, general_callback, last_press_time,
                 i2c0_initialized, calibrations, libVars>>

\* The state button A leaves the application in.
buttonA_wraps(state) ==
  CASE state = "STATE_CALIBRATE_WHITE" -> "STATE_CALIBRATE_BLACK"
    [] state = "STATE_CALIBRATE_BLACK" -> "STATE_RUNNING"
    [] state = "STATE_RUNNING" -> "STATE_CALIBRATE_WHITE"

buttonA(state) ==
  CASE state = "STATE_CALIBRATE_WHITE" -> "STATE_CALIBRATE_BLACK"
    [] state = "STATE_CALIBRATE_BLACK" -> "STATE_RUNNING"
    [] state = "STATE_RUNNING" -> "STATE_RUNNING"

\* gy33_calibrate_white / gy33_calibrate_black read the sensor over i2c0.
\* On a bus that gy33_init has not set up yet the transfer returns
\* arbitrary data or does not return.
calibrate(fn) ==
  /\ calibrations' = Append(calibrations,
                            [fn |-> fn, i2c0_initialized |-> i2c0_initialized])
  /\ \/ /\ current_state' = buttonA(current_state)
        /\ UNCHANGED main_pc
     \/ /\ ~i2c0_initialized
        /\ main_pc' = "hung"
        /\ UNCHANGED current_state

btn_callback(gpio) ==
  CASE gpio = BUTTON_A_PIN ->
         IF current_state = "STATE_CALIBRATE_WHITE"
           THEN calibrate("gy33_calibrate_white")
           ELSE IF current_state = "STATE_CALIBRATE_BLACK"
             THEN calibrate("gy33_calibrate_black")
             ELSE /\ current_state' = buttonA(current_state)
                  /\ UNCHANGED <<main_pc, calibrations>>
    [] gpio = BUTTON_B_PIN ->
         /\ main_pc' = "reset_usb_boot"
         /\ UNCHANGED <<current_state, calibrations>>
    [] gpio = BUTTON_C_PIN ->
         UNCHANGED <<main_pc, current_state, calibrations>>

\* The GPIO interrupt of a falling edge on a button pin, delivered once
\* buttons_init has registered the handler.  last_press_time is an earlier
\* value of the clock, which does not wrap within MaxNow, so the uint32_t
\* difference is the plain one.
gpio_callback_handler(gpio) ==
  /\ general_callback # "NULL"
  /\ ~Stopped
  /\ IF now - last_press_time < debounce_ms
       THEN UNCHANGED <<last_press_time, main_pc, current_state, calibrations>>
       ELSE /\ last_press_time' = now
            /\ btn_callback(gpio)
  /\ UNCHANGED <<general_callback, now, i2c0_initialized, libVars>>

InitApp ==
  /\ InitConfig
  /\ pio_sm_claimed = [p \in PioBlocks |-> {}]

NextApp ==
  \/ buttons_init("btn_callback")
  \/ led_init
  \/ gy33_init
  \/ main_npInit
  \/ \E color \in Palette : main_loop(color.r, color.g, color.b)
  \/ Tick
  \/ \E gpio \in {BUTTON_A_PIN, BUTTON_B_PIN, BUTTON_C_PIN} :
       gpio_callback_handler(gpio)

SpecApp == InitApp /\ [][NextApp]_vars

(***************************************************************************)
(* Claims about the application (SpecApp)                                  *)
(***************************************************************************)

\* The names of the calibration calls made so far, in order.
CalibrationOrder == [k \in 1 .. Len(calibrations) |-> calibrations[k].fn]

\* C21: current_state only moves STATE_CALIBRATE_WHITE ->
\* STATE_CALIBRATE_BLACK -> STATE_RUNNING, one step per button press that
\* passed the debounce test, never backwards, never skipping a state, and
\* STATE_RUNNING is never left; main calls npFillRGB only in STATE_RUNNING,
\* so only after gy33_calibrate_white and then gy33_calibrate_black have
\* each been called, in that order.
C21_StateProgression ==
  [][/\ current_state' # current_state =>
          /\ <<current_state, current_state'>> \in
               {<<"STATE_CALIBRATE_WHITE", "STATE_CALIBRATE_BLACK">>,
                <<"STATE_CALIBRATE_BLACK", "STATE_RUNNING">>}
          /\ now - last_press_time >= debounce_ms
          /\ last_press_time' = now
          /\ Len(calibrations') = Len(calibrations) + 1
     /\ current_state = "STATE_RUNNING" => current_state' = "STATE_RUNNING"
     /\ (ndraw' # ndraw /\ call'.name = "npFillRGB") =>
          /\ current_state = "STATE_RUNNING"
          /\ CalibrationOrder = <<"gy33_calibrate_white", "gy33_calibrate_black">>]_vars

\* main has filled the matrix twice with a sensed colour in STATE_RUNNING,
\* reached through the two calibrations, both made after gy33_init.
C21_Witness ==
  /\ call.name = "npFillRGB" /\ ndraw = 2
  /\ leds[0] # Led(Black)
  /\ current_state = "STATE_RUNNING"
  /\ calibrations = <<[fn |-> "gy33_calibrate_white", i2c0_initialized |-> TRUE],
                      [fn |-> "gy33_calibrate_black", i2c0_initialized |-> TRUE]>>

\* C22: gy33_calibrate_white and gy33_calibrate_black, called from the
\* button interrupt, never run before gy33_init has completed in main.
C22_CalibrationAfterSensorInit ==
  \A k \in 1 .. Len(calibrations) : calibrations[k].i2c0_initialized
====
